---- MODULE Spec2Model ----
(***************************************************************************)
(* Model of ironbar's custom module (src/src/modules/custom/mod.rs):       *)
(*   - the controller task of CustomModule::spawn_controller, its receive  *)
(*     channel of ExecEvent and its outbound channel of ModuleUpdateEvent; *)
(*   - the UI side that feeds the channel and applies popup requests;      *)
(*   - the construction of the widget tree by CustomModule::into_widget    *)
(*     and WidgetOrModule::add_to.                                         *)
(* Two specifications share the variables: Spec runs one controller,       *)
(* SpecBuild builds one widget tree.                                       *)
(***************************************************************************)
EXTENDS Integers, Sequences, FiniteSets, TLC

(***************************************************************************)
(* Bounds of the model.                                                    *)
(***************************************************************************)
\* capacity of the receive channel (UI -> controller) explored by the model
ChanCap == 2
\* capacity of the outbound channel (controller -> UI) explored by the model
OutCap == 1
\* number of ExecEvents the UI side tries to send in one run
MaxSends == 3
\* popup ids an ExecEvent may carry
Ids == {1, 2}
\* number of nodes of the bar configuration of the module that is built
MaxNodes == 3

(***************************************************************************)
(* Strings are sequences of characters, so that starts_with, slicing and   *)
(* string equality are computed as the code computes them.                 *)
(***************************************************************************)
STR_TOGGLE == <<"p","o","p","u","p",":","t","o","g","g","l","e">>
STR_OPEN == <<"p","o","p","u","p",":","o","p","e","n">>
STR_CLOSE == <<"p","o","p","u","p",":","c","l","o","s","e">>
STR_FROB == <<"f","r","o","b","n","i","c","a","t","e">>
STR_RUN == <<"!","r">>

\* the command strings the UI side sends in Spec
Cmds == {STR_RUN, STR_TOGGLE, STR_OPEN, STR_CLOSE, STR_FROB}

\* Option<T>: None is the empty sequence, Some(x) is <<x>>
None == <<>>
Some(x) == <<x>>

\* ExecEvent { cmd, args, id }: the events the UI side sends in Spec
ExecEvents ==
    [cmd : Cmds \ {STR_RUN}, args : {None}, id : Ids]
        \cup [cmd : {STR_RUN}, args : {None, Some(<<<<"a">>>>)}, id : {1}]

\* str::starts_with(char)
starts_with(s, c) == Len(s) > 0 /\ s[1] = c

\* &s[1..]
slice_from_1(s) == SubSeq(s, 2, Len(s))

\* Option<Vec<String>>::unwrap_or_default
unwrap_or_default(a) == IF a = None THEN <<>> ELSE a[1]

\* ModuleUpdateEvent: TogglePopup(usize), OpenPopup(usize), ClosePopup
TogglePopup(i) == [type |-> "TogglePopup", id |-> i]
OpenPopup(i) == [type |-> "OpenPopup", id |-> i]
ClosePopup == [type |-> "ClosePopup"]

(***************************************************************************)
(* Configuration nodes (WidgetConfig.widget: WidgetOrModule).  A Widget    *)
(* node always builds.  A Module node names a module kind: "custom" (a     *)
(* nested CustomModule with its own bar) or "other" (any other module, the *)
(* outcome of whose construction is an input: ok, spawn_err when its       *)
(* spawn_controller fails, widget_err when its into_widget fails).         *)
(* common is the module's Option<CommonConfig>.  button marks the Widget    *)
(* nodes that are popup-trigger buttons; popup is the nested CustomModule's *)
(* Option<Vec<WidgetConfig>>.                                              *)
(***************************************************************************)
WidgetNode ==
    [kind |-> "widget", mkind |-> "none", common |-> TRUE, outcome |-> "ok", bar |-> <<>>,
     button |-> FALSE, popup |-> None]
ButtonNode ==
    [kind |-> "widget", mkind |-> "none", common |-> TRUE, outcome |-> "ok", bar |-> <<>>,
     button |-> TRUE, popup |-> None]
OtherModule(o) ==
    [kind |-> "module", mkind |-> "other", common |-> TRUE, outcome |-> o, bar |-> <<>>,
     button |-> FALSE, popup |-> None]
OtherNoCommon ==
    [kind |-> "module", mkind |-> "other", common |-> FALSE, outcome |-> "ok", bar |-> <<>>,
     button |-> FALSE, popup |-> None]
CustomNode(b) ==
    [kind |-> "module", mkind |-> "custom", common |-> TRUE, outcome |-> "ok", bar |-> b,
     button |-> FALSE, popup |-> None]
CustomWithPopup(b, p) ==
    [kind |-> "module", mkind |-> "custom", common |-> TRUE, outcome |-> "ok", bar |-> b,
     button |-> FALSE, popup |-> Some(p)]

\* the nodes a nested custom module holds
LeafNodes ==
    {WidgetNode, OtherModule("ok"), OtherModule("spawn_err"), OtherModule("widget_err"),
     OtherNoCommon}

\* the bars of the nested custom modules
NestedBars ==
    {<<>>,
     <<OtherModule("ok")>>,
     <<OtherModule("widget_err"), ButtonNode>>,
     <<WidgetNode, OtherNoCommon>>,
     <<CustomNode(<<OtherModule("ok"), OtherModule("spawn_err")>>)>>}

\* the nodes of the bar that is built
TopNodes ==
    LeafNodes \cup {ButtonNode} \cup {CustomNode(b) : b \in NestedBars}
        \cup {CustomWithPopup(<<ButtonNode>>, <<ButtonNode, WidgetNode>>)}

\* the bar configurations that are built
BarConfigs == UNION {[1..n -> TopNodes] : n \in 0..MaxNodes}

\* the popup configurations (CustomModule.popup: Option<Vec<WidgetConfig>>)
PopupConfigs == {None, Some(<<>>), Some(<<ButtonNode, OtherModule("ok")>>)}

VARIABLES
    \* ---- SpecBuild: the construction of one CustomModule ----
    cfg,        \* self.bar: the nodes of the module that is built
    popupCfg,   \* self.popup
    bpc,        \* where the construction is: create, for_each, done, panicked
    bidx,       \* the index of the node the for_each of into_widget is at
    build,      \* the state the construction works on (see BuildInit)
    \* ---- Spec: one controller and the UI side ----
    chan,       \* rx: the buffered ExecEvents of the receive channel
    open,       \* TRUE while a sender of the receive channel is alive
    pc,         \* the controller's await point: recv, script, send, terminated
    cur,        \* what the controller awaits: the running script or the message being sent
    out,        \* the outbound channel (context.tx) of ModuleUpdateEvents
    visible,    \* the popup registry: which popup nodes are shown
    nsent,      \* number of sends the UI side has attempted
    accepted,   \* history: the ExecEvents the channel accepted, in send order
    deq,        \* history: the ExecEvents the controller dequeued, in order
    emitted,    \* history: the requests sent on out, each with the index of its event in deq
    results,    \* history: the finished scripts, [from: index in deq, ok: BOOLEAN]
    errors,     \* the error log: a set of reports
    uiHist,     \* history: the requests the UI applied, each with the registry after it
    \* ---- SpecPure: one call of a function ----
    call,       \* the function called and its arguments
    ret         \* None before the call returns, Some(result) after

runVars == <<chan, open, pc, cur, out, visible, nsent, accepted, deq, emitted,
             results, errors, uiHist>>

buildVars == <<cfg, popupCfg, bpc, bidx, build>>

pureVars == <<call, ret>>

vars == <<runVars, buildVars, pureVars>>

(***************************************************************************)
(* The controller task: CustomModule::spawn_controller, mod.rs 248-270.    *)
(***************************************************************************)
Idle == [kind |-> "idle"]

\* mutant: popup:open is routed as a toggle
DispatchOpenAsToggle(event) ==
    IF starts_with(event.cmd, "!")
    THEN [kind |-> "script", script |-> slice_from_1(event.cmd),
          args |-> unwrap_or_default(event.args)]
    ELSE IF event.cmd = STR_TOGGLE THEN [kind |-> "send", msg |-> TogglePopup(event.id)]
    ELSE IF event.cmd = STR_OPEN THEN [kind |-> "send", msg |-> TogglePopup(event.id)]
    ELSE IF event.cmd = STR_CLOSE THEN [kind |-> "send", msg |-> ClosePopup]
    ELSE [kind |-> "invalid"]

\* mutant: a directive is recognised by its prefix
DispatchByPrefix(event) ==
    LET HasPrefix(p) == Len(event.cmd) >= Len(p) /\ SubSeq(event.cmd, 1, Len(p)) = p
    IN  IF starts_with(event.cmd, "!")
        THEN [kind |-> "script", script |-> slice_from_1(event.cmd),
              args |-> unwrap_or_default(event.args)]
        ELSE IF HasPrefix(STR_TOGGLE) THEN [kind |-> "send", msg |-> TogglePopup(event.id)]
        ELSE IF HasPrefix(STR_OPEN) THEN [kind |-> "send", msg |-> OpenPopup(event.id)]
        ELSE IF HasPrefix(STR_CLOSE) THEN [kind |-> "send", msg |-> ClosePopup]
        ELSE [kind |-> "invalid"]

\* the if / else-if chain of the loop body (mod.rs 250-268): what one event leads to
Dispatch(event) ==
    IF starts_with(event.cmd, "!")
    THEN [kind |-> "script", script |-> slice_from_1(event.cmd),
          args |-> unwrap_or_default(event.args)]
    ELSE IF event.cmd = STR_TOGGLE THEN [kind |-> "send", msg |-> TogglePopup(event.id)]
    ELSE IF event.cmd = STR_OPEN THEN [kind |-> "send", msg |-> OpenPopup(event.id)]
    ELSE IF event.cmd = STR_CLOSE THEN [kind |-> "send", msg |-> ClosePopup]
    ELSE [kind |-> "invalid"]

\* mutant: the newest buffered event is taken first
DequeueNewest(q) == [event |-> q[Len(q)], rest |-> SubSeq(q, 1, Len(q) - 1)]

\* rx.recv() yields the oldest buffered event (mod.rs 249)
Dequeue(q) == [event |-> Head(q), rest |-> Tail(q)]

\* mutant: the loop ends as soon as the buffer is empty
RecvNoneWhenEmpty == chan = <<>>

\* mutant: the loop ends when the senders are dropped, whatever is still buffered
RecvNoneOnClose == ~open

\* rx.recv() yields None: every sender is dropped and the buffer is empty (mod.rs 249)
RecvReturnsNone == ~open /\ chan = <<>>

\* mutant: the script runs beside the loop, which goes on reading
AtRecvOrScript == pc \in {"recv", "script"}

\* the controller is at rx.recv().await, the only place it reads the channel (mod.rs 249)
AtRecv == pc = "recv"

\* mutant: the error leaves the loop (a `?` or a break in place of error!)
AfterErrorStop == "terminated"

\* after error!(..) the loop goes on to the next rx.recv() (mod.rs 258, 267)
AfterError == "recv"

\* mutant: the task shows the popup itself instead of sending a request
RecvTouchingRegistry ==
    /\ AtRecv
    /\ chan # <<>>
    /\ chan' = Tail(chan)
    /\ deq' = Append(deq, Head(chan))
    /\ visible' = [visible EXCEPT ![Head(chan).id] = TRUE]
    /\ UNCHANGED <<buildVars, pureVars>>
    /\ UNCHANGED <<open, pc, cur, out, nsent, accepted, emitted, results, errors, uiHist>>

\* one iteration of `while let Some(event) = rx.recv().await` up to its first await
Recv ==
    /\ AtRecv
    /\ chan # <<>>
    /\ LET d == Dequeue(chan)
           n == Len(deq) + 1
           r == Dispatch(d.event)
       IN  /\ chan' = d.rest
           /\ deq' = Append(deq, d.event)
           /\ CASE r.kind = "script" ->
                     /\ pc' = "script"
                     /\ cur' = [kind |-> "script", script |-> r.script,
                                args |-> r.args, from |-> n]
                     /\ errors' = errors
                [] r.kind = "send" ->
                     /\ pc' = "send"
                     /\ cur' = [kind |-> "send", msg |-> r.msg, from |-> n]
                     /\ errors' = errors
                [] OTHER ->
                     /\ pc' = AfterError
                     /\ cur' = Idle
                     /\ errors' = errors \cup {[kind |-> "invalid", at |-> n]}
    /\ UNCHANGED <<buildVars, pureVars>>
    /\ UNCHANGED <<open, out, visible, nsent, accepted, emitted, results, uiHist>>

\* script.get_output(Some(&args)).await completes, with Ok or Err (mod.rs 257-259)
ScriptDone ==
    /\ pc = "script"
    /\ \E ok \in BOOLEAN :
          /\ results' = Append(results, [from |-> cur.from, ok |-> ok])
          /\ errors' = IF ok THEN errors
                       ELSE errors \cup {[kind |-> "script", at |-> cur.from]}
          /\ pc' = IF ok THEN "recv" ELSE AfterError
    /\ cur' = Idle
    /\ UNCHANGED <<buildVars, pureVars>>
    /\ UNCHANGED <<chan, open, out, visible, nsent, accepted, deq, emitted, uiHist>>

\* send_async!(tx, msg): tx.send(msg).await completes once the channel has room
SendAsync ==
    /\ pc = "send"
    /\ Len(out) < OutCap
    /\ out' = Append(out, cur.msg)
    /\ emitted' = Append(emitted, [req |-> cur.msg, from |-> cur.from])
    /\ pc' = "recv"
    /\ cur' = Idle
    /\ UNCHANGED <<buildVars, pureVars>>
    /\ UNCHANGED <<chan, open, visible, nsent, accepted, deq, results, errors, uiHist>>

\* rx.recv() returns None: the while-let loop and the task end (mod.rs 249, 270)
RecvNone ==
    /\ AtRecv
    /\ RecvReturnsNone
    /\ pc' = "terminated"
    /\ UNCHANGED <<buildVars, pureVars>>
    /\ UNCHANGED <<chan, open, cur, out, visible, nsent, accepted, deq, emitted,
                   results, errors, uiHist>>

(***************************************************************************)
(* The UI side.                                                            *)
(***************************************************************************)
\* mutant: an event that does not fit is lost without a report
TrySendSilent(q, ev) ==
    IF Len(q) < ChanCap THEN [ok |-> TRUE, q |-> Append(q, ev)]
    ELSE [ok |-> TRUE, q |-> q]

\* a best-effort send into a bounded channel: it never waits
TrySend(q, ev) ==
    IF Len(q) < ChanCap THEN [ok |-> TRUE, q |-> Append(q, ev)]
    ELSE [ok |-> FALSE, q |-> q]

\* a widget of the module sends an ExecEvent through CustomWidgetContext.tx
UISend ==
    /\ open
    /\ nsent < MaxSends
    /\ \E ev \in ExecEvents :
          LET r == TrySend(chan, ev)
          IN  /\ chan' = r.q
              /\ accepted' = IF r.ok THEN Append(accepted, ev) ELSE accepted
              /\ errors' = IF r.ok THEN errors
                           ELSE errors \cup {[kind |-> "full", at |-> nsent + 1]}
    /\ nsent' = nsent + 1
    /\ UNCHANGED <<buildVars, pureVars>>
    /\ UNCHANGED <<open, pc, cur, out, visible, deq, emitted, results, uiHist>>

\* the module is removed: every sender of the receive channel is dropped
CloseChannel ==
    /\ open
    /\ open' = FALSE
    /\ UNCHANGED <<buildVars, pureVars>>
    /\ UNCHANGED <<chan, pc, cur, out, visible, nsent, accepted, deq, emitted,
                   results, errors, uiHist>>

\* Popup subsystem: every popup node is hidden
Hide(v) == [j \in Ids |-> FALSE]

\* Popup subsystem: the popup node of id i is shown
Show(v, i) == [v EXCEPT ![i] = TRUE]

\* mutant: open shows the node without hiding the one that is open
PopupOpenNoHide(v, i) == Show(v, i)

\* open(id): close whatever is open, then show id's popup node
PopupOpen(v, i) == Show(Hide(v), i)

\* close(): hide what is open; nothing open is a no-op
PopupClose(v) == Hide(v)

\* mutant: toggle never closes
PopupToggleOnlyOpens(v, i) == PopupOpen(v, i)

\* toggle(id): open id if it is not the visible one, else close it
PopupToggle(v, i) == IF v[i] THEN PopupClose(v) ELSE PopupOpen(v, i)

\* the UI side's handling of one ModuleUpdateEvent
ApplyRequest(v, req) ==
    CASE req.type = "TogglePopup" -> PopupToggle(v, req.id)
      [] req.type = "OpenPopup" -> PopupOpen(v, req.id)
      [] req.type = "ClosePopup" -> PopupClose(v)

\* the UI scheduler takes the next request of the outbound channel and applies it
UIHandle ==
    /\ out # <<>>
    /\ out' = Tail(out)
    /\ visible' = ApplyRequest(visible, Head(out))
    /\ uiHist' = Append(uiHist, [req |-> Head(out), after |-> visible'])
    /\ UNCHANGED <<buildVars, pureVars>>
    /\ UNCHANGED <<chan, open, pc, cur, nsent, accepted, deq, emitted, results, errors>>

RunInit ==
    /\ chan = <<>>
    /\ open = TRUE
    /\ pc = "recv"
    /\ cur = Idle
    /\ out = <<>>
    /\ visible = [j \in Ids |-> FALSE]
    /\ nsent = 0
    /\ accepted = <<>>
    /\ deq = <<>>
    /\ emitted = <<>>
    /\ results = <<>>
    /\ errors = {}
    /\ uiHist = <<>>


(***************************************************************************)
(* The functions of mod.rs 106-126 and the classification of a cmd, each   *)
(* applied once to an input of a bounded set (SpecPure).                   *)
(***************************************************************************)
UPPER ==
    <<"A","B","C","D","E","F","G","H","I","J","K","L","M",
      "N","O","P","Q","R","S","T","U","V","W","X","Y","Z">>
LOWER ==
    <<"a","b","c","d","e","f","g","h","i","j","k","l","m",
      "n","o","p","q","r","s","t","u","v","w","x","y","z">>

\* char::to_lowercase on the ASCII characters
char_to_lowercase(c) ==
    IF \E i \in DOMAIN UPPER : UPPER[i] = c
    THEN LOWER[CHOOSE i \in DOMAIN UPPER : UPPER[i] = c]
    ELSE c

\* str::to_lowercase
to_lowercase(s) == [i \in 1..Len(s) |-> char_to_lowercase(s[i])]

STR_HORIZONTAL == <<"h","o","r","i","z","o","n","t","a","l">>
STR_H == <<"h">>
STR_VERTICAL == <<"v","e","r","t","i","c","a","l">>
STR_V == <<"v">>

\* Result<Orientation>
Ok(x) == [ok |-> TRUE, value |-> x]
Err == [ok |-> FALSE, value |-> "Invalid orientation string in config"]

\* mutant: the string is compared as written
try_get_orientation_cased(orientation) ==
    CASE orientation \in {STR_HORIZONTAL, STR_H} -> Ok("Horizontal")
      [] orientation \in {STR_VERTICAL, STR_V} -> Ok("Vertical")
      [] OTHER -> Err

\* fn try_get_orientation(orientation: &str) -> Result<Orientation>
try_get_orientation(orientation) ==
    CASE to_lowercase(orientation) \in {STR_HORIZONTAL, STR_H} -> Ok("Horizontal")
      [] to_lowercase(orientation) \in {STR_VERTICAL, STR_V} -> Ok("Vertical")
      [] OTHER -> Err

\* mutant: both requests are set
set_length_both(widget, length, bar_orientation) ==
    [width_request |-> length, height_request |-> length]

\* fn set_length(widget, length, bar_orientation): the widget's requests after the call
set_length(widget, length, bar_orientation) ==
    CASE bar_orientation = "Horizontal" -> [widget EXCEPT !.width_request = length]
      [] bar_orientation = "Vertical" -> [widget EXCEPT !.height_request = length]
      [] OTHER -> widget

\* the strings try_get_orientation is applied to
OrientationInputs ==
    {<<"h","o","r","i","z","o","n","t","a","l">>,
     <<"H","o","r","i","z","o","n","t","a","l">>,
     <<"H","O","R","I","Z","O","N","T","A","L">>,
     <<"h","O","r","I","z","O","n","T","a","L">>,
     <<"h">>,
     <<"H">>,
     <<"v","e","r","t","i","c","a","l">>,
     <<"V","e","r","t","i","c","a","l">>,
     <<"V","E","R","T","I","C","A","L">>,
     <<"v","E","r","T","i","C","a","L">>,
     <<"v">>,
     <<"V">>,
     <<>>,
     <<" ","h">>,
     <<"h"," ">>,
     <<"v","e","r","t","i","c","a","l"," ">>,
     <<"h","v">>,
     <<"h","o","r","i","z">>,
     <<"v","e","r","t">>,
     <<"x">>,
     <<"h","o","r","i","z","o","n","t","l">>,
     <<"v","h">>,
     <<"h","o","r","i","z","o","n","t","a","l","1">>}

\* gtk::Orientation: Horizontal, Vertical and the non-exhaustive rest
Orientations == {"Horizontal", "Vertical", "__Unknown"}

\* the widgets and lengths set_length is applied to
SetLengthInputs ==
    [widget : [width_request : {-1, 40}, height_request : {-1, 40}],
     length : {0, 25}, bar_orientation : Orientations]

\* the cmd strings the classification is applied to
DispatchCmds ==
    {<<"!","r">>,
     <<"!">>,
     <<"!","p","o","p","u","p",":","t","o","g","g","l","e">>,
     <<"!","p","o","p","u","p",":","c","l","o","s","e">>,
     <<"p","o","p","u","p",":","t","o","g","g","l","e">>,
     <<"p","o","p","u","p",":","o","p","e","n">>,
     <<"p","o","p","u","p",":","c","l","o","s","e">>,
     <<"p","o","p","u","p",":","t","o","g","g","l","e"," ">>,
     <<"P","o","p","u","p",":","t","o","g","g","l","e">>,
     <<"P","O","P","U","P",":","C","L","O","S","E">>,
     <<"p","o","p","u","p",":","o","p","e","n","x">>,
     <<" ","p","o","p","u","p",":","o","p","e","n">>,
     <<>>,
     <<"f","r","o","b","n","i","c","a","t","e">>,
     <<"r","!">>,
     <<"p","o","p","u","p",":">>}

\* the ExecEvents the classification is applied to
DispatchInputs == [cmd : DispatchCmds, args : {None, Some(<<<<"a">>>>)}, id : Ids]

PTryGetOrientation ==
    /\ call.fn = "try_get_orientation"
    /\ ret = None
    /\ ret' = Some(try_get_orientation(call.arg))
    /\ UNCHANGED <<call, runVars, buildVars>>

PSetLength ==
    /\ call.fn = "set_length"
    /\ ret = None
    /\ ret' = Some(set_length(call.arg.widget, call.arg.length, call.arg.bar_orientation))
    /\ UNCHANGED <<call, runVars, buildVars>>

PDispatch ==
    /\ call.fn = "dispatch"
    /\ ret = None
    /\ ret' = Some(Dispatch(call.arg))
    /\ UNCHANGED <<call, runVars, buildVars>>

\* todo!(): the call panics with "not yet implemented" and returns nothing
Todo == [panic |-> "not yet implemented"]

\* BarModuleFactory::create(module): its body is todo!()
BarModuleFactory_create(module) == Todo

\* the valid module descriptions create is called with
FactoryInputs == {n \in TopNodes : n.kind = "module" /\ n.common}

PCreate ==
    /\ call.fn = "create"
    /\ ret = None
    /\ ret' = Some(BarModuleFactory_create(call.arg))
    /\ UNCHANGED <<call, runVars, buildVars>>

PureIdle ==
    /\ call = [fn |-> "none"]
    /\ ret = None

PureStart ==
    /\ call \in [fn : {"try_get_orientation"}, arg : OrientationInputs]
                  \cup [fn : {"set_length"}, arg : SetLengthInputs]
                  \cup [fn : {"dispatch"}, arg : DispatchInputs]
                  \cup [fn : {"create"}, arg : FactoryInputs]
    /\ ret = None

(***************************************************************************)
(* Construction of the widget tree: CustomModule::into_widget, into_popup  *)
(* and WidgetOrModule::add_to.  The operators work on a record:            *)
(*   children  the children of the container that is being filled          *)
(*   path      history: where that container is in the configuration       *)
(*   nextId    the counter behind Ironbar::unique_id                       *)
(*   given     history: the ids add_to drew, each with the node's path     *)
(*   channels  the receive channels created, [id, open]                    *)
(*   ctls      the controller tasks spawned, [id, rx: index in channels]   *)
(*   errs      the error log                                               *)
(*   panicked  a panic unwinds the construction                            *)
(*   popup     the popup container into_popup returned, None before        *)
(***************************************************************************)
RECURSIVE AddTo(_, _, _), ForEach(_, _, _)

\* mutant: the counter is read and not advanced
UniqueIdStale(st) == [id |-> st.nextId, st |-> st]

\* Ironbar::unique_id(): a process-wide counter
UniqueId(st) == [id |-> st.nextId, st |-> [st EXCEPT !.nextId = @ + 1]]

\* mutant: the task is spawned twice
SpawnControllerTwice(st, id, ch) ==
    [st EXCEPT !.ctls = Append(Append(@, [id |-> id, rx |-> ch, state |-> "running"]),
                               [id |-> id, rx |-> ch, state |-> "running"])]

\* CustomModule::spawn_controller: spawn(async move { .. rx .. }) once, then Ok(())
SpawnController(st, id, ch) ==
    [st EXCEPT !.ctls = Append(@, [id |-> id, rx |-> ch, state |-> "running"])]

\* spawn_controller of a module that is no CustomModule
OtherSpawnController(st, id, ch) ==
    [st EXCEPT !.ctls = Append(@, [id |-> id, rx |-> ch, state |-> "running"])]

\* mutant: a sender of the channel outlives the failed construction
DropContextLeak(st, ch) == st

\* create_module returns Err: its context, and with it every sender of the
\* module's receive channel, is dropped
DropContext(st, ch) == [st EXCEPT !.channels[ch].open = FALSE]

\* Button widget: into_widget pushes the button on context.popup_buttons
ButtonIntoWidget(st, k) == [st EXCEPT !.buttons = Append(@, Append(st.path, k))]

\* Widget::add_to: create the widget, wrap it, parent.add(&event_box)
WidgetAddTo(node, st, k) ==
    LET st1 == IF node.button THEN ButtonIntoWidget(st, k) ELSE st
    IN  [st1 EXCEPT !.children =
            Append(@, [kind |-> "widget", at |-> k, id |-> 0, children |-> <<>>,
                       popup |-> None])]

\* self.bar.for_each(|widget| widget.widget.add_to(&container, ..)) from node k on
ForEach(bar, k, st) ==
    IF k > Len(bar) \/ st.panicked THEN st
    ELSE ForEach(bar, k + 1, AddTo(bar[k], st, k))

\* the popup context of into_popup: its own empty popup_buttons
PopupContext(st) == [st EXCEPT !.children = <<>>, !.path = Append(@, 0), !.buttons = <<>>]

\* mutant: no container is returned when the popup configuration is absent
IntoPopupNoneWhenAbsent(popup, st) ==
    LET called == [st EXCEPT !.popupCalls = Append(@, st.path)]
    IN  IF popup = None THEN [st |-> called, popup |-> None]
        ELSE LET inner == ForEach(popup[1], 1, PopupContext(called))
             IN  [st |-> [inner EXCEPT !.children = st.children, !.path = st.path,
                                       !.buttons = st.buttons],
                  popup |-> Some(inner.children)]

\* CustomModule::into_popup: a container, filled when self.popup is Some, and
\* returned as Some(container) in both cases
IntoPopup(popup, st) ==
    LET called == [st EXCEPT !.popupCalls = Append(@, st.path)]
    IN  IF popup = None THEN [st |-> called, popup |-> Some(<<>>)]
        ELSE LET inner == ForEach(popup[1], 1, PopupContext(called))
             IN  [st |-> [inner EXCEPT !.children = st.children, !.path = st.path,
                                       !.buttons = st.buttons],
                  popup |-> Some(inner.children)]

\* Option<gtk::Box>::into_popup_parts_owned(buttons)
IntoPopupPartsOwned(container, buttons) ==
    IF container = None THEN None
    ELSE Some([container |-> container[1], buttons |-> buttons])

\* the end of into_widget: into_popup, then popup_buttons.take()
PopupOf(popup, st) ==
    LET p == IntoPopup(popup, st)
    IN  [st |-> [p.st EXCEPT !.buttons = <<>>],
         popup |-> IF p.st.panicked THEN None
                   ELSE IntoPopupPartsOwned(p.popup, p.st.buttons)]

\* CustomModule::into_widget of a nested module: a new container and a new
\* popup_buttons, the bar nodes in order, then the popup
IntoWidget(node, st, path) ==
    LET inner == ForEach(node.bar, 1,
                         [st EXCEPT !.children = <<>>, !.path = path, !.buttons = <<>>])
        p == IF inner.panicked THEN [st |-> inner, popup |-> None]
             ELSE PopupOf(node.popup, inner)
    IN  [st |-> [p.st EXCEPT !.children = st.children, !.path = st.path,
                             !.buttons = st.buttons],
         widget |-> inner.children,
         popup |-> p.popup]

\* crate::modules::create_module: the channel, spawn_controller, then into_widget;
\* an Err of either is returned and the context, with the channel's senders, dropped
CreateModule(node, id, st, path) ==
    LET ch == Len(st.channels) + 1
        st1 == [st EXCEPT !.channels = Append(@, [id |-> id, open |-> TRUE])]
        Dropped(s) == DropContext(s, ch)
    IN  IF node.mkind = "custom"
        THEN LET r == IntoWidget(node, SpawnController(st1, id, ch), path)
             IN  [ok |-> TRUE, st |-> r.st, widget |-> r.widget, popup |-> r.popup]
        ELSE CASE node.outcome = "spawn_err" ->
                    [ok |-> FALSE, st |-> Dropped(st1), widget |-> <<>>, popup |-> None]
               [] node.outcome = "widget_err" ->
                    [ok |-> FALSE, st |-> Dropped(OtherSpawnController(st1, id, ch)),
                     widget |-> <<>>, popup |-> None]
               [] OTHER ->
                    [ok |-> TRUE, st |-> OtherSpawnController(st1, id, ch),
                     widget |-> <<>>, popup |-> None]

\* mutant: the container of a module that failed is added all the same
AttachAlways(st, r, id, k) ==
    [st EXCEPT !.children =
        Append(@, [kind |-> "module", at |-> k, id |-> id, children |-> r.widget,
                   popup |-> r.popup])]

\* match widget_parts { Ok => parent.add(&container), Err(err) => error!(..) }
Attach(st, r, id, k) ==
    IF r.ok
    THEN [st EXCEPT !.children =
             Append(@, [kind |-> "module", at |-> k, id |-> id, children |-> r.widget,
                        popup |-> r.popup])]
    ELSE [st EXCEPT !.errs = @ \cup {[path |-> Append(st.path, k), id |-> id]}]

\* mutant: the absent CommonConfig is reported as an error and construction goes on
ExpectCommonLogged(node, st, path, id) ==
    IF node.common THEN st
    ELSE [st EXCEPT !.errs = @ \cup {[path |-> path, id |-> id]}]

\* $module.common.take().expect("common config to exist"): None panics
ExpectCommon(node, st, path, id) ==
    IF node.common THEN st ELSE [st EXCEPT !.panicked = TRUE]

\* WidgetOrModule::add_to for the k-th node of the container that is being filled
AddTo(node, st, k) ==
    IF node.kind = "widget" THEN WidgetAddTo(node, st, k)
    ELSE LET u == UniqueId(st)
             path == Append(st.path, k)
             st1 == [u.st EXCEPT !.given = Append(@, [id |-> u.id, path |-> path])]
             st2 == ExpectCommon(node, st1, path, u.id)
         IN  IF ~node.common
             THEN st2
             ELSE LET r == CreateModule(node, u.id, st2, path)
                  IN  IF r.st.panicked THEN r.st ELSE Attach(r.st, r, u.id, k)

NoBuild ==
    [children |-> <<>>, path |-> <<>>, nextId |-> 1, given |-> <<>>, channels |-> <<>>,
     ctls |-> <<>>, errs |-> {}, panicked |-> FALSE, popup |-> None, buttons |-> <<>>,
     popupCalls |-> <<>>]

\* create_module for the module that is built: its id, its channel, its controller
BCreate ==
    /\ bpc = "create"
    /\ LET u == UniqueId(build)
           st1 == [u.st EXCEPT !.given = Append(@, [id |-> u.id, path |-> <<>>]),
                               !.channels = Append(@, [id |-> u.id, open |-> TRUE])]
       IN  build' = SpawnController(st1, u.id, Len(st1.channels))
    /\ bpc' = "for_each"
    /\ bidx' = 1
    /\ UNCHANGED <<cfg, popupCfg, runVars, pureVars>>

\* one step of the for_each of into_widget (mod.rs 295-299)
BAddTo ==
    /\ bpc = "for_each"
    /\ bidx <= Len(cfg)
    /\ build' = AddTo(cfg[bidx], build, bidx)
    /\ bidx' = bidx + 1
    /\ bpc' = IF build'.panicked THEN "panicked" ELSE "for_each"
    /\ UNCHANGED <<cfg, popupCfg, runVars, pureVars>>

\* the end of into_widget: into_popup, then Ok(ModuleParts) (mod.rs 301-308)
BIntoPopup ==
    /\ bpc = "for_each"
    /\ bidx > Len(cfg)
    /\ LET p == PopupOf(popupCfg, build)
       IN  build' = [p.st EXCEPT !.popup = p.popup]
    /\ bpc' = IF build'.panicked THEN "panicked" ELSE "done"
    /\ UNCHANGED <<cfg, popupCfg, bidx, runVars, pureVars>>

\* the controller task j finds its receive channel closed and returns
CtlExit(j) ==
    /\ build.ctls[j].state = "running"
    /\ ~build.channels[build.ctls[j].rx].open
    /\ build' = [build EXCEPT !.ctls[j].state = "terminated"]
    /\ UNCHANGED <<cfg, popupCfg, bpc, bidx, runVars, pureVars>>

BCtlExit == \E j \in DOMAIN build.ctls : CtlExit(j)

BuildIdle ==
    /\ cfg = <<>>
    /\ popupCfg = None
    /\ bpc = "idle"
    /\ bidx = 1
    /\ build = NoBuild

BuildStart ==
    /\ cfg \in BarConfigs
    /\ popupCfg \in PopupConfigs
    /\ bpc = "create"
    /\ bidx = 1
    /\ build = NoBuild

\* the steps of the UI thread that builds the module
Construct ==
    \/ BCreate
    \/ BAddTo
    \/ BIntoPopup

BuildNext ==
    \/ Construct
    \/ BCtlExit

BuildInit == BuildStart /\ RunInit /\ PureIdle

SpecBuild == BuildInit /\ [][BuildNext]_vars

\* the runtime polls a task whose rx.recv() is ready
FairSpecBuild == BuildInit /\ [][BuildNext]_vars /\ WF_vars(BCtlExit)

Init == RunInit /\ BuildIdle /\ PureIdle

Next ==
    \/ Recv
    \/ ScriptDone
    \/ SendAsync
    \/ RecvNone
    \/ UISend
    \/ CloseChannel
    \/ UIHandle

Spec == Init /\ [][Next]_vars

\* the runtime polls the task once rx.recv() is ready with None
FairSpec == Init /\ [][Next]_vars /\ WF_vars(RecvNone)

PureInit == PureStart /\ RunInit /\ BuildIdle

PureNext ==
    \/ PTryGetOrientation
    \/ PSetLength
    \/ PDispatch
    \/ PCreate

SpecPure == PureInit /\ [][PureNext]_vars

(***************************************************************************)
(* Properties of the controller and the UI side, checked under Spec.       *)
(***************************************************************************)
AllHidden == [j \in Ids |-> FALSE]

\* the cmd is neither '!'-prefixed nor one of the three popup directives
IsInvalidCmd(c) == ~starts_with(c, "!") /\ c \notin {STR_TOGGLE, STR_OPEN, STR_CLOSE}

\* the script started for the k-th dequeued event returned an error
ScriptFailed(k) == \E j \in DOMAIN results : results[j].from = k /\ ~results[j].ok

\* the number of requests emitted for the k-th dequeued event
EmittedFor(k) == Cardinality({j \in DOMAIN emitted : emitted[j].from = k})

\* the controller holds a request for the k-th dequeued event that it has not sent yet
PendingFor(k) == pc = "send" /\ cur.from = k

\* the requests of a history, in order
Reqs(h) == [j \in 1..Len(h) |-> h[j].req]

\* C1: in every reachable state where the receive channel is still open, the
\* controller task has not terminated, whatever ExecEvents it has received.
C1_RunningWhileOpen == open => pc # "terminated"

\* C1 witness: the channel is open, the controller has handled several events,
\* an invalid one among them, and is back at rx.recv().
C1_Witness ==
    /\ open
    /\ pc = "recv"
    /\ Len(deq) >= 2
    /\ \E k \in DOMAIN deq : IsInvalidCmd(deq[k].cmd)

\* C2: a message whose handling fails (an invalid cmd, or a script that returns
\* an error) has its error reported, yields no popup request, and does not stop
\* the controller: the controller ends only on a closed and drained channel, and
\* at rx.recv() with a buffered message it can dequeue it.
C2_FailureKeepsRunning ==
    \A k \in DOMAIN deq :
        /\ IsInvalidCmd(deq[k].cmd) =>
              /\ [kind |-> "invalid", at |-> k] \in errors
              /\ EmittedFor(k) = 0
              /\ ~PendingFor(k)
        /\ ScriptFailed(k) =>
              /\ [kind |-> "script", at |-> k] \in errors
              /\ EmittedFor(k) = 0
              /\ ~PendingFor(k)
        /\ (IsInvalidCmd(deq[k].cmd) \/ ScriptFailed(k)) =>
              /\ pc = "terminated" => (~open /\ chan = <<>>)
              /\ pc # "terminated" => pc \in {"recv", "script", "send"}
              /\ (pc = "recv" /\ chan # <<>>) => ENABLED Recv

\* C2 witness: an invalid cmd and a failed script were handled, and the controller
\* has dequeued a message that followed them.
C2_Witness ==
    \E k1, k2 \in DOMAIN deq :
        /\ IsInvalidCmd(deq[k1].cmd)
        /\ ScriptFailed(k2)
        /\ Len(deq) > k1
        /\ Len(deq) > k2

\* C3 as stated: while the script of one '!' event has not completed, the
\* controller can still dequeue the next message of its channel.
C3_Original == (pc = "script" /\ chan # <<>>) => ENABLED Recv

\* C3 amended: while the script of one '!' event has not completed, the controller
\* does not dequeue: the messages that follow wait in the channel.
C3_ScriptBlocksRecv == pc = "script" => ~ENABLED Recv

\* C3 witness: a script is running and a popup directive waits in the channel.
C3_Witness == pc = "script" /\ chan # <<>> /\ Head(chan).cmd = STR_TOGGLE

\* C4: the controller dequeues the events in the order the channel accepted them,
\* and the popup requests appear on the outbound channel in the order of their
\* events.
C4_ReceiptOrder ==
    /\ accepted = deq \o chan
    /\ \A k, l \in DOMAIN emitted : k < l => emitted[k].from < emitted[l].from
    /\ pc = "send" => \A k \in DOMAIN emitted : emitted[k].from < cur.from
    /\ Reqs(emitted) = Reqs(uiHist) \o out

\* C4 witness: two different popup directives were accepted, dequeued and forwarded.
C4_Witness ==
    /\ Len(emitted) >= 2
    /\ emitted[1].req # emitted[2].req
    /\ deq[emitted[1].from].cmd # deq[emitted[2].from].cmd

\* what C5 expects of the request emitted for event e, the close request included
C5_ExpectedWithId(e, req) ==
    /\ "id" \in DOMAIN req
    /\ req.id = e.id
    /\ req.type = CASE e.cmd = STR_TOGGLE -> "TogglePopup"
                    [] e.cmd = STR_OPEN -> "OpenPopup"
                    [] e.cmd = STR_CLOSE -> "ClosePopup"

\* what the code emits: toggle and open carry the id, close carries none
C5_Expected(e, req) ==
    CASE e.cmd = STR_TOGGLE -> req = [type |-> "TogglePopup", id |-> e.id]
      [] e.cmd = STR_OPEN -> req = [type |-> "OpenPopup", id |-> e.id]
      [] e.cmd = STR_CLOSE -> req = [type |-> "ClosePopup"]

\* every directive yields exactly one request and no other cmd yields one
C5_OnePerDirective ==
    \A k \in DOMAIN deq :
        IF deq[k].cmd \in {STR_TOGGLE, STR_OPEN, STR_CLOSE}
        THEN EmittedFor(k) + (IF PendingFor(k) THEN 1 ELSE 0) = 1
        ELSE EmittedFor(k) = 0 /\ ~PendingFor(k)

\* C5 as stated: every directive with id i yields exactly one request of its kind
\* carrying i (the close request too), and no other cmd yields a request.
C5_Original ==
    /\ C5_OnePerDirective
    /\ \A j \in DOMAIN emitted : C5_ExpectedWithId(deq[emitted[j].from], emitted[j].req)

\* C5 amended: popup:toggle yields exactly one toggle request for i, popup:open
\* exactly one open request for i, popup:close exactly one close request, which
\* carries no id; no other cmd yields a popup request.
C5_Routing ==
    /\ C5_OnePerDirective
    /\ \A j \in DOMAIN emitted : C5_Expected(deq[emitted[j].from], emitted[j].req)
    /\ pc = "send" => C5_Expected(deq[cur.from], cur.msg)

\* C5 witness: a close and a toggle request were emitted and a cmd that is no
\* directive was handled.
C5_Witness ==
    /\ \E j \in DOMAIN emitted : emitted[j].req.type = "ClosePopup"
    /\ \E j \in DOMAIN emitted : emitted[j].req.type = "TogglePopup"
    /\ \E k \in DOMAIN deq : deq[k].cmd \notin {STR_TOGGLE, STR_OPEN, STR_CLOSE}

\* the popup registry before the k-th request the UI applied
Before(k) == IF k = 1 THEN AllHidden ELSE uiHist[k - 1].after

\* C7: after any sequence of open, toggle and close requests at most one popup is
\* visible, and open(A) leaves A visible and every other popup hidden.
C7_PopupExclusive ==
    /\ Cardinality({j \in Ids : visible[j]}) <= 1
    /\ \A k \in DOMAIN uiHist :
          /\ Cardinality({j \in Ids : uiHist[k].after[j]}) <= 1
          /\ uiHist[k].req.type = "OpenPopup" =>
                \A j \in Ids : uiHist[k].after[j] <=> (j = uiHist[k].req.id)

\* C7 witness: open(A) was applied while the popup of another id B was visible.
C7_Witness ==
    \E k \in DOMAIN uiHist :
        /\ uiHist[k].req.type = "OpenPopup"
        /\ \E b \in Ids : b # uiHist[k].req.id /\ Before(k)[b]

\* the k-th and the k+1-th applied requests are toggles of the same id, hidden before
DoubleToggle(k) ==
    /\ k + 1 \in DOMAIN uiHist
    /\ uiHist[k].req.type = "TogglePopup"
    /\ uiHist[k + 1].req = uiHist[k].req
    /\ ~Before(k)[uiHist[k].req.id]

\* C8 as stated: the first toggle shows popup i, the second hides it, and the popup
\* visibility state after the two toggles equals the state before them.
C8_Original ==
    \A k \in DOMAIN uiHist :
        DoubleToggle(k) =>
            /\ uiHist[k].after[uiHist[k].req.id]
            /\ ~uiHist[k + 1].after[uiHist[k].req.id]
            /\ uiHist[k + 1].after = Before(k)

\* C8 amended: the first toggle shows popup i and the second hides it again, so the
\* visibility of popup i is as before; the whole registry is as before when no other
\* popup was visible, and a popup of another id that was visible is hidden after.
C8_DoubleToggle ==
    \A k \in DOMAIN uiHist :
        DoubleToggle(k) =>
            /\ uiHist[k].after[uiHist[k].req.id]
            /\ ~uiHist[k + 1].after[uiHist[k].req.id]
            /\ uiHist[k + 1].after = AllHidden
            /\ Before(k) = AllHidden => uiHist[k + 1].after = Before(k)

\* C8 witness: two consecutive toggles of one id were applied to a registry in which
\* nothing was visible.
C8_Witness == \E k \in DOMAIN uiHist : DoubleToggle(k) /\ Before(k) = AllHidden

\* C9: a send into the receive channel never waits: with the channel full the send
\* is still possible, the buffer never exceeds its capacity, and every event sent is
\* either in the channel's history or dropped with a reported error.
C9_Backpressure ==
    /\ Len(chan) <= ChanCap
    /\ (open /\ nsent < MaxSends) => ENABLED UISend
    /\ Len(deq) + Len(chan) + Cardinality({e \in errors : e.kind = "full"}) = nsent
    /\ \A e \in errors : e.kind = "full" => e.at \in 1..nsent

\* C9 witness: more events were sent than the channel holds and one was dropped with
\* a report, the controller still at rx.recv().
C9_Witness ==
    /\ nsent > ChanCap
    /\ \E e \in errors : e.kind = "full"
    /\ pc = "recv"

(***************************************************************************)
(* Properties of the construction, checked under SpecBuild.                *)
(***************************************************************************)
\* the node constructs: a widget, or a module whose create_module returns Ok
Constructs(node) ==
    node.kind = "widget" \/ node.mkind = "custom" \/ node.outcome = "ok"

\* the indices of the first n nodes of bar that construct, in configuration order
ExpectedAts(bar, n) == SelectSeq([k \in 1..n |-> k], LAMBDA k : Constructs(bar[k]))

\* the configuration index of each child of a container, in the container's order
Ats(children) == [j \in 1..Len(children) |-> children[j].at]

\* the errors reported for the nodes directly under the container at path
ErrorsUnder(path) ==
    {e.path[Len(e.path)] : e \in {x \in build.errs : SubSeq(x.path, 1, Len(x.path) - 1) = path}}

\* the container built from the first n nodes of bar holds what C6 says
BuiltInOrder(children, bar, n, path) ==
    /\ Ats(children) = ExpectedAts(bar, n)
    /\ \A j \in DOMAIN children : children[j].kind = bar[children[j].at].kind
    /\ ErrorsUnder(path) = {k \in 1..n : ~Constructs(bar[k])}

\* C6: the container's children are exactly the nodes that constructed, in
\* configuration order; a module whose create_module fails adds no child, has its
\* error reported for it alone, and the siblings after it are still constructed.
\* The same holds of the container of every nested custom module.
C6_OrderAndIsolation ==
    bpc \in {"for_each", "done"} =>
        /\ BuiltInOrder(build.children, cfg, bidx - 1, <<>>)
        /\ \A j \in DOMAIN build.children :
              LET c == build.children[j]
              IN  cfg[c.at].mkind = "custom" =>
                     BuiltInOrder(c.children, cfg[c.at].bar, Len(cfg[c.at].bar), <<c.at>>)
        /\ bpc = "done" => Ats(build.children) = ExpectedAts(cfg, Len(cfg))

\* C6 witness: of three nodes the second is a module that failed; the container
\* holds the first and the third.
C6_Witness ==
    /\ bpc = "done"
    /\ Len(cfg) = 3
    /\ Constructs(cfg[1]) /\ ~Constructs(cfg[2]) /\ Constructs(cfg[3])
    /\ cfg[3].kind = "module"
    /\ Ats(build.children) = <<1, 3>>
    /\ Cardinality(build.errs) = 1

\* the ids of the modules attached anywhere under a container
RECURSIVE TreeIds(_)
TreeIds(children) ==
    UNION {{children[j].id} \cup TreeIds(children[j].children) :
              j \in {i \in DOMAIN children : children[i].kind = "module"}}

\* the controller tasks and the receive channels of module id i
CtlsOf(i) == {j \in DOMAIN build.ctls : build.ctls[j].id = i}
ChannelsOf(i) == {j \in DOMAIN build.channels : build.channels[j].id = i}

\* C10: every module id has at most one controller task and, once create_module
\* ran for it, exactly one receive channel; the channel belongs to that task alone
\* and none is created twice.
C10_OneControllerPerModule ==
    /\ \A g \in DOMAIN build.given :
          /\ Cardinality(CtlsOf(build.given[g].id)) <= 1
          /\ Cardinality(ChannelsOf(build.given[g].id)) <= 1
    /\ \A i \in {1} \cup TreeIds(build.children) :
          bpc # "create" =>
              /\ Cardinality(CtlsOf(i)) = 1
              /\ Cardinality(ChannelsOf(i)) = 1
    /\ \A j \in DOMAIN build.ctls :
          /\ build.ctls[j].rx \in DOMAIN build.channels
          /\ build.channels[build.ctls[j].rx].id = build.ctls[j].id
          /\ \A l \in DOMAIN build.ctls : build.ctls[l].rx = build.ctls[j].rx => l = j
    /\ \A j \in DOMAIN build.channels :
          \E g \in DOMAIN build.given : build.given[g].id = build.channels[j].id

\* C10 witness: the construction is done, with a nested custom module that itself
\* holds a module, and a module that failed after its controller was spawned.
C10_Witness ==
    /\ bpc = "done"
    /\ \E j \in DOMAIN build.children :
          /\ build.children[j].kind = "module"
          /\ \E l \in DOMAIN build.children[j].children :
                build.children[j].children[l].kind = "module"
    /\ Len(build.ctls) >= 4
    /\ Len(build.ctls) < Len(build.channels)

(***************************************************************************)
(* Properties of the functions, checked under SpecPure.                    *)
(***************************************************************************)
\* a and b are the same character up to the case of an ASCII letter
SameLetter(a, b) == a = b \/ \E i \in DOMAIN UPPER : {a, b} = {UPPER[i], LOWER[i]}

\* s equals the lower-case word t when case is ignored
EqIgnoreCase(s, t) == Len(s) = Len(t) /\ \A i \in 1..Len(s) : SameLetter(s[i], t[i])

\* the call of fn has returned
Returned(fn) == call.fn = fn /\ ret # None

\* C14: try_get_orientation returns Horizontal for every string that is
\* "horizontal" or "h" up to case, Vertical for every string that is "vertical" or
\* "v" up to case, and an error for every other string, the empty string and
\* strings with surrounding whitespace included.
C14_OrientationParsing ==
    Returned("try_get_orientation") =>
        LET s == call.arg
            r == ret[1]
        IN  /\ (EqIgnoreCase(s, STR_HORIZONTAL) \/ EqIgnoreCase(s, STR_H)) =>
                  (r.ok /\ r.value = "Horizontal")
            /\ (EqIgnoreCase(s, STR_VERTICAL) \/ EqIgnoreCase(s, STR_V)) =>
                  (r.ok /\ r.value = "Vertical")
            /\ ~(\E t \in {STR_HORIZONTAL, STR_H, STR_VERTICAL, STR_V} : EqIgnoreCase(s, t))
                  => ~r.ok
            /\ (s = <<>> \/ starts_with(s, " ") \/ (Len(s) > 0 /\ s[Len(s)] = " ")) => ~r.ok

\* C14 witness: a mixed-case spelling of "horizontal" was parsed to Horizontal.
C14_Witness ==
    /\ Returned("try_get_orientation")
    /\ call.arg # STR_HORIZONTAL
    /\ Len(call.arg) = Len(STR_HORIZONTAL)
    /\ ret[1].ok
    /\ ret[1].value = "Horizontal"

\* C15: set_length sets only the width request under a Horizontal bar and only the
\* height request under a Vertical bar; the other request keeps its value, and
\* under any other orientation value both keep theirs.
C15_SetLengthFrame ==
    Returned("set_length") =>
        LET a == call.arg
            w == ret[1]
        IN  /\ a.bar_orientation = "Horizontal" =>
                  /\ w.width_request = a.length
                  /\ w.height_request = a.widget.height_request
            /\ a.bar_orientation = "Vertical" =>
                  /\ w.height_request = a.length
                  /\ w.width_request = a.widget.width_request
            /\ a.bar_orientation \notin {"Horizontal", "Vertical"} => w = a.widget

\* C15 witness: under a Vertical bar a length that differs from both requests was
\* set on a widget whose width request was given.
C15_Witness ==
    /\ Returned("set_length")
    /\ call.arg.bar_orientation = "Vertical"
    /\ call.arg.widget.width_request = 40
    /\ call.arg.length = 25
    /\ ret[1].height_request = 25

\* the one of the five cases a classification result stands for
CaseOf(r) ==
    CASE r.kind = "script" -> "script"
      [] r.kind = "send" /\ r.msg.type = "TogglePopup" -> "toggle"
      [] r.kind = "send" /\ r.msg.type = "OpenPopup" -> "open"
      [] r.kind = "send" /\ r.msg.type = "ClosePopup" -> "close"
      [] r.kind = "invalid" -> "invalid"

\* C19: every cmd falls in exactly one of the five cases; a cmd that begins with
\* '!' is a script whose command is the cmd without its first character, and no
\* popup request, also when the rest is a directive; a directive is recognised only
\* when the cmd equals it, every variation is an invalid command.
C19_Classification ==
    Returned("dispatch") =>
        LET c == call.arg.cmd
            r == ret[1]
        IN  /\ r.kind \in {"script", "send", "invalid"}
            /\ r.kind = "send" => r.msg.type \in {"TogglePopup", "OpenPopup", "ClosePopup"}
            /\ (Len(c) > 0 /\ c[1] = "!") =>
                  /\ CaseOf(r) = "script"
                  /\ <<"!">> \o r.script = c
            /\ ~(Len(c) > 0 /\ c[1] = "!") =>
                  CaseOf(r) = CASE c = STR_TOGGLE -> "toggle"
                                [] c = STR_OPEN -> "open"
                                [] c = STR_CLOSE -> "close"
                                [] OTHER -> "invalid"

\* C19 witness: "!popup:toggle" was classified as the script "popup:toggle".
C19_Witness ==
    /\ Returned("dispatch")
    /\ call.arg.cmd = <<"!">> \o STR_TOGGLE
    /\ ret[1].kind = "script"
    /\ ret[1].script = STR_TOGGLE

(***************************************************************************)
(* Draining and ownership, checked under FairSpec and Spec.                *)
(***************************************************************************)
\* the dequeued events that start a script, and those that are directives
ScriptEvents == {k \in DOMAIN deq : starts_with(deq[k].cmd, "!")}
DirectiveEvents == {k \in DOMAIN deq : deq[k].cmd \in {STR_TOGGLE, STR_OPEN, STR_CLOSE}}

\* what holds of every state for C17
DrainingInv ==
    /\ pc = "terminated" =>
          /\ ~open
          /\ chan = <<>>
          /\ cur = Idle
          /\ Len(results) = Cardinality(ScriptEvents)
          /\ Len(emitted) = Cardinality(DirectiveEvents)
    /\ pc = "script" => ENABLED ScriptDone
    /\ (~open /\ pc = "recv" /\ chan # <<>>) => (ENABLED Recv /\ ~ENABLED RecvNone)

\* C17: a closure of the channel aborts nothing: a running script can still
\* complete and the buffered messages are still dequeued, and the controller
\* terminates only with the buffer empty and every script and request of the
\* dequeued events finished; once the channel is closed, the buffer empty and the
\* controller back at rx.recv(), it eventually terminates.
C17_Draining ==
    /\ []DrainingInv
    /\ (~open /\ chan = <<>> /\ pc = "recv") ~> (pc = "terminated")

\* C17 witness: the channel was closed while a script runs and a message is
\* buffered; the script has not been aborted.
C17_Witness == ~open /\ pc = "script" /\ chan # <<>>

\* C18: a step of the controller (one that moves its await point or its histories)
\* writes neither the popup registry nor the widget tree nor the popup buttons; it
\* only dequeues from the receive channel, runs a script or appends to the outbound
\* channel.  The popup registry changes only in steps of the UI scheduler.
C18_ControllerOwnsNoUiState ==
    [][ /\ (pc' # pc \/ cur' # cur \/ deq' # deq \/ emitted' # emitted \/ results' # results)
           => /\ visible' = visible
              /\ uiHist' = uiHist
              /\ UNCHANGED buildVars
              /\ nsent' = nsent /\ accepted' = accepted /\ open' = open
              /\ chan' = chan \/ (chan # <<>> /\ chan' = Tail(chan))
              /\ out' = out \/ (Len(out') = Len(out) + 1 /\ SubSeq(out', 1, Len(out)) = out)
        /\ visible' # visible
           => /\ Len(uiHist') = Len(uiHist) + 1
              /\ pc' = pc /\ cur' = cur /\ deq' = deq /\ emitted' = emitted
      ]_vars

\* C18 witness: the UI scheduler has shown a popup on a request of the controller,
\* which is now running a script.
C18_Witness ==
    /\ pc = "script"
    /\ Len(uiHist) >= 1
    /\ \E j \in Ids : visible[j]

\* C11 as stated: for every valid module description, create completes with Ok
\* and the ModuleParts it returns holds a widget.  BarModuleFactory::create is
\* todo!(), so the call aborts for every module and this does not hold.
C11_Original ==
    Returned("create") =>
        /\ "ok" \in DOMAIN ret[1]
        /\ ret[1].ok
        /\ "widget" \in DOMAIN ret[1].value

(***************************************************************************)
(* Further properties of the construction, checked under SpecBuild.        *)
(***************************************************************************)
\* the configuration node at a path: <<k>> is the k-th node of self.bar, <<0, k>>
\* the k-th node of self.popup, a longer path goes on into the bar or the popup
\* of a nested custom module
RECURSIVE NodeIn(_, _, _)
NodeIn(bar, popup, path) ==
    LET nodes == IF path[1] = 0 THEN popup[1] ELSE bar
        rest == IF path[1] = 0 THEN Tail(path) ELSE path
        node == nodes[rest[1]]
    IN  IF Len(rest) = 1 THEN node ELSE NodeIn(node.bar, node.popup, Tail(rest))

NodeAt(path) == NodeIn(cfg, popupCfg, path)

\* the Module nodes add_to was called for so far, as indices of build.given
Realised == {g \in DOMAIN build.given : build.given[g].path # <<>>}

\* C13: a Module node without CommonConfig panics where the configuration is
\* extracted: no channel and no controller exists for it (create_module did
\* not run), nothing is attached and no error is logged for it, and the
\* construction stops there: no sibling is built after it.  Nothing else panics.
C13_MissingCommonPanics ==
    /\ \A g \in Realised :
          LET id == build.given[g].id
          IN  ~NodeAt(build.given[g].path).common =>
                 /\ build.panicked
                 /\ bpc = "panicked"
                 /\ g = Len(build.given)
                 /\ ChannelsOf(id) = {}
                 /\ CtlsOf(id) = {}
                 /\ id \notin TreeIds(build.children)
                 /\ \A e \in build.errs : e.id # id
                 /\ ~ENABLED Construct
    /\ build.panicked =>
          /\ Realised # {}
          /\ ~NodeAt(build.given[Len(build.given)].path).common

\* C13 witness: the second node of a nested bar has no CommonConfig; the
\* construction has panicked with the first node of the outer bar attached.
C13_Witness ==
    /\ bpc = "panicked"
    /\ Len(build.children) >= 1
    /\ Len(build.given[Len(build.given)].path) = 2

\* the number of module containers attached anywhere under a container
RECURSIVE NumModules(_)
NumModules(children) ==
    IF children = <<>> THEN 0
    ELSE LET c == Head(children)
         IN  (IF c.kind = "module" THEN 1 + NumModules(c.children) ELSE 0)
                + NumModules(Tail(children))

\* C16: the ids handed out are pairwise distinct and increase in the order of
\* instantiation, each Module node that add_to realised got exactly one of them
\* (also the nodes whose construction failed or panicked), and no two module
\* containers of the tree, nor one of them and the module that is built, hold
\* the same id; channels and controllers carry only ids that were handed out.
C16_UniqueIds ==
    /\ \A g, h \in DOMAIN build.given :
          g < h => /\ build.given[g].id < build.given[h].id
                   /\ build.given[g].path # build.given[h].path
    /\ bpc # "create" => build.given[1] = [id |-> 1, path |-> <<>>]
    /\ TreeIds(build.children) \subseteq {build.given[g].id : g \in Realised}
    /\ Cardinality(TreeIds(build.children)) = NumModules(build.children)
    /\ \A e \in build.errs : \E g \in Realised : build.given[g] = [id |-> e.id, path |-> e.path]
    /\ \A j \in DOMAIN build.ctls : \E g \in DOMAIN build.given : build.given[g].id = build.ctls[j].id

\* C16 witness: a module nested in a nested custom module is attached, a module
\* failed, and at least four ids were handed out.
C16_Witness ==
    /\ bpc = "done"
    /\ Len(build.given) >= 4
    /\ build.errs # {}
    /\ \E j \in DOMAIN build.children :
          /\ build.children[j].kind = "module"
          /\ TreeIds(build.children[j].children) # {}

\* the controllers whose receive channel has no sender left and that still run
AbandonedRunning ==
    {j \in DOMAIN build.ctls :
        ~build.channels[build.ctls[j].rx].open /\ build.ctls[j].state = "running"}

\* what holds of every state for C12
AbandonedInv ==
    /\ \A e \in build.errs :
          /\ e.id \notin TreeIds(build.children)
          /\ ChannelsOf(e.id) # {}
          /\ \A ch \in ChannelsOf(e.id) : ~build.channels[ch].open
          /\ \A j \in CtlsOf(e.id) :
                build.ctls[j].state = "terminated" \/ ENABLED CtlExit(j)
    /\ \A j \in DOMAIN build.ctls :
          build.channels[build.ctls[j].rx].open => build.ctls[j].state = "running"

\* C12: a module whose create_module returned Err is not attached anywhere in the
\* tree, its receive channel has no sender left, and its controller, if one was
\* spawned, can observe the closure and, under fair scheduling of the task,
\* eventually is terminated; a controller whose channel is open keeps running.
C12_Abandoned ==
    /\ []AbandonedInv
    /\ (AbandonedRunning # {}) ~> (AbandonedRunning = {})

\* C12 witness: a module failed in into_widget, after its controller was
\* spawned; the controller has terminated and the sibling after it is attached.
C12_Witness ==
    /\ bpc = "done"
    /\ \E e \in build.errs :
          /\ Len(e.path) = 1
          /\ cfg[e.path[1]].outcome = "widget_err"
          /\ \E j \in CtlsOf(e.id) : build.ctls[j].state = "terminated"
          /\ \E c \in DOMAIN build.children : build.children[c].at > e.path[1]

\* the popup-trigger buttons among the first n nodes of a bar, in configuration order
ExpectedButtons(bar, n, path) ==
    LET ks == SelectSeq([k \in 1..n |-> k],
                        LAMBDA k : bar[k].kind = "widget" /\ bar[k].button)
    IN  [j \in 1..Len(ks) |-> Append(path, ks[j])]

\* the calls of into_popup made for the module at path
CallsFor(path) == {j \in DOMAIN build.popupCalls : build.popupCalls[j] = path}

\* the ModuleParts.popup of the custom module at path, with bar and popup as its
\* configuration, is what C20 says
PopupAsBuilt(parts, bar, popup, path) ==
    /\ parts # None
    /\ parts[1].buttons = ExpectedButtons(bar, Len(bar), path)
    /\ \A j \in DOMAIN parts[1].buttons :
          \A l \in DOMAIN parts[1].buttons[j] : parts[1].buttons[j][l] # 0
    /\ popup = None => parts[1].container = <<>>
    /\ popup # None => Ats(parts[1].container) = ExpectedAts(popup[1], Len(popup[1]))
    /\ Cardinality(CallsFor(path)) = 1

\* PopupAsBuilt of every nested custom module attached under a container
RECURSIVE NestedPopupsAsBuilt(_, _, _)
NestedPopupsAsBuilt(children, bar, path) ==
    \A j \in DOMAIN children :
        LET c == children[j]
            node == bar[c.at]
        IN  (c.kind = "module" /\ node.mkind = "custom") =>
                /\ PopupAsBuilt(c.popup, node.bar, node.popup, Append(path, c.at))
                /\ NestedPopupsAsBuilt(c.children, node.bar, Append(path, c.at))

\* C20: while the bar nodes are built no into_popup call was made for the module
\* and its popup_buttons holds the buttons of the bar nodes built so far; when
\* into_widget has returned, into_popup was called exactly once for the module,
\* the ModuleParts carries a popup (an empty container when the popup
\* configuration is absent), and the buttons handed to the popup are exactly
\* the buttons of the bar nodes, in order, none of them built inside the popup.
\* The same holds of every nested custom module that is attached.
C20_PopupOnce ==
    /\ bpc \in {"create", "for_each"} =>
          /\ build.popup = None
          /\ CallsFor(<<>>) = {}
          /\ build.buttons = ExpectedButtons(cfg, bidx - 1, <<>>)
    /\ bpc = "done" => PopupAsBuilt(build.popup, cfg, popupCfg, <<>>)
    /\ bpc \in {"for_each", "done"} => NestedPopupsAsBuilt(build.children, cfg, <<>>)
    /\ \A j, l \in DOMAIN build.popupCalls :
          build.popupCalls[j] = build.popupCalls[l] => j = l

\* C20 witness: the bar holds a button and a nested custom module without popup
\* configuration, the popup holds a button of its own; the module's popup carries
\* the bar's button alone and the nested module's popup is an empty container.
C20_Witness ==
    /\ bpc = "done"
    /\ popupCfg # None
    /\ \E j \in DOMAIN build.popup[1].container :
          popupCfg[1][build.popup[1].container[j].at].button
    /\ Len(build.popup[1].buttons) = 1
    /\ \E j \in DOMAIN build.children :
          /\ cfg[build.children[j].at].mkind = "custom"
          /\ cfg[build.children[j].at].popup = None
          /\ build.children[j].popup = Some([container |-> <<>>, buttons |-> <<>>])

====
